---------------------------- MODULE Spec2Model ----------------------------
(***************************************************************************)
(* Model of src/main.py: EnhancedATHValidator.                             *)
(*                                                                         *)
(*   Spec         run_enhanced_validation: the sweep over 8 parameter      *)
(*                points with its retry loop, the two exception handlers,  *)
(*                the two time.sleep calls and the final length check.     *)
(*   SpecMetrics  the three metric extractors applied to histograms drawn  *)
(*                from a bounded set.                                      *)
(*   SpecAnalyze  analyze_enhanced_results applied to result mappings      *)
(*                drawn from a bounded set.                                *)
(*                                                                         *)
(* Python floats are modelled as exact rationals [n, d] with d > 0.  A     *)
(* Python str is a sequence of one-character strings.                      *)
(***************************************************************************)
EXTENDS Integers, Sequences, FiniteSets, TLC

VARIABLES
    \* run_enhanced_validation
    pc,             \* position in run_enhanced_validation
    idx,            \* index of the for loop over param_range (line 69)
    retry_count,    \* line 73
    success,        \* line 74
    results,        \* line 55: the three metric series
    attempts,       \* jobs submitted for the current point (line 80/83)
    backoff_waited, \* time slept by line 128 during the current point
    delay_waited,   \* time slept by line 136 since the start of the sweep
    \* metric extractors called on their own
    counts,         \* the histogram handed to the extractors
    metric,         \* what each extractor returned
    \* analyze_enhanced_results
    apc,            \* position in analyze_enhanced_results
    a_results,      \* its argument
    a_todo,         \* keys of results still to be visited by line 203
    analysis        \* line 197

vars == <<pc, idx, retry_count, success, results, attempts, backoff_waited,
          delay_waited, counts, metric, apc, a_results, a_todo, analysis>>

loop_vars == <<pc, idx, retry_count, success, results, attempts,
               backoff_waited, delay_waited>>
metric_vars == <<counts, metric>>
analyze_vars == <<apc, a_results, a_todo, analysis>>

-----------------------------------------------------------------------------
(* Bounds of the model *)

\* largest number of distinct bit-strings in a histogram built from SampleKeys
MaxEntries == 2
\* largest count of one bit-string
MaxCount == 2
\* longest series handed to analyze_enhanced_results
MaxSeriesLen == 2

(* Program constants *)

NumQubits == 8
SweepLen == 8
max_retries == 3
retry_delay == 5
point_delay == 2

-----------------------------------------------------------------------------
(* Rationals standing for Python floats *)

Abs(x) == IF x < 0 THEN -x ELSE x

RECURSIVE GCD(_, _)
GCD(a, b) == IF b = 0 THEN a ELSE GCD(b, a % b)

Rat(n, d) == [n |-> n, d |-> d]

\* the value of a rational, in lowest terms: two floats are equal iff their
\* reduced forms are
Reduce(r) ==
    LET g == GCD(Abs(r.n), r.d)
    IN  Rat(r.n \div g, r.d \div g)

RAdd(a, b) == Rat(a.n * b.d + b.n * a.d, a.d * b.d)

RLeq(a, b) == a.n * b.d <= b.n * a.d

Zero == Rat(0, 1)

-----------------------------------------------------------------------------
(* Strings and histograms *)

Digits == <<"0", "1", "2", "3", "4", "5", "6", "7", "8", "9">>

IsDigit(ch) == \E i \in 1..Len(Digits) : Digits[i] = ch

\* int(x) for a one-character string x that is a digit
IntOf(ch) == (CHOOSE i \in 1..Len(Digits) : Digits[i] = ch) - 1

\* [int(x) for x in state] raises ValueError when some character is no digit
Parses(state) == \A i \in 1..Len(state) : IsDigit(state[i])

BitsOf(state) == [i \in 1..Len(state) |-> IntOf(state[i])]

\* the n-th bit-string of the measured length, most significant bit first
BitString(n) ==
    [i \in 1..NumQubits |->
        IF (n \div (2 ^ (NumQubits - i))) % 2 = 1 THEN "1" ELSE "0"]

AllBitStrings == {BitString(n) : n \in 0..(2 ^ NumQubits - 1)}

EmptyKey == << >>
SpaceKey == <<"0", "0", "0", "0", " ", "0", "0", "0", "0">>

\* keys a histogram cannot be reduced from
MalformedKeys == {EmptyKey, SpaceKey}

\* bit-strings used for histograms of more than one entry
SampleKeys ==
    {BitString(0), BitString(255), BitString(170), BitString(85),
     BitString(15), BitString(20), BitString(226)} \cup MalformedKeys

\* The type of the counts decides the type of a quotient of counts:
\* int / int is a float, Fraction / Fraction is a Fraction.
ValueTypes == {"int", "Fraction"}

\* histograms of one bit-string, over every bit-string of the measured length
SingleTables ==
    {(k :> c) : k \in AllBitStrings \cup MalformedKeys, c \in 0..MaxCount}

\* histograms of at most MaxEntries bit-strings, the empty one included
SampleTables ==
    UNION {[D -> 0..MaxCount] :
             D \in {E \in SUBSET SampleKeys : Cardinality(E) <= MaxEntries}}

Tables == SingleTables \cup SampleTables

Histograms == {[tbl |-> t, vtype |-> v] : t \in Tables, v \in ValueTypes}

RECURSIVE SumOver(_, _)
SumOver(f, S) ==
    IF S = {} THEN 0
    ELSE LET k == CHOOSE k \in S : TRUE
         IN  f[k] + SumOver(f, S \ {k})

RECURSIVE RSumOver(_, _)
RSumOver(f, S) ==
    IF S = {} THEN Zero
    ELSE LET k == CHOOSE k \in S : TRUE
         IN  RAdd(f[k], RSumOver(f, S \ {k}))

\* sum(counts.values())
Total(h) == SumOver(h.tbl, DOMAIN h.tbl)

-----------------------------------------------------------------------------
(* Metric extractors (lines 144-191) *)

\* What a call gives back: a value of some Python type, or an exception.
Returned(v, t) == [exc |-> FALSE, val |-> v, typ |-> t]
Raised == [exc |-> TRUE, val |-> Zero, typ |-> "none"]
NotCalled == [exc |-> FALSE, val |-> Zero, typ |-> "pending"]

\* type of  <sum of counts> / total
QuotientType(h) == IF h.vtype = "int" THEN "float" ELSE "Fraction"

\* a scan of pairs instead of triples: range(len(bits) - 1)
EqualTriples_Pairs(bits) ==
    Cardinality({i \in 1..(Len(bits) - 1) : bits[i] = bits[i + 1]})

\* lines 155-157: windows of three equal consecutive bits
EqualTriples(bits) ==
    Cardinality({i \in 1..(Len(bits) - 2) :
                    bits[i] = bits[i + 1] /\ bits[i + 1] = bits[i + 2]})

\* only one of the two alternating patterns is compared
AlternatingQuads_OnePattern(bits) ==
    Cardinality({i \in 1..(Len(bits) - 3) :
                    <<bits[i], bits[i + 1], bits[i + 2], bits[i + 3]>>
                        = <<1, 0, 1, 0>>})

\* lines 187-190: windows of four bits equal to 1010 or 0101
AlternatingQuads(bits) ==
    Cardinality({i \in 1..(Len(bits) - 3) :
                    LET pattern == <<bits[i], bits[i + 1], bits[i + 2], bits[i + 3]>>
                    IN  pattern = <<1, 0, 1, 0>> \/ pattern = <<0, 1, 0, 1>>})

\* sum(bits)
SumBits(bits) == SumOver(bits, DOMAIN bits)

\* lines 171-172: abs(sum(bits) / len(bits) - 0.5) * count
Weight(bits, count) ==
    Rat(Abs(2 * SumBits(bits) - Len(bits)) * count, 2 * Len(bits))

\* without the test of lines 149-150 the division of line 158 raises
\* ZeroDivisionError on a total of 0
calculate_temporal_correlation_NoTotalGuard(h) ==
    IF DOMAIN h.tbl = {} THEN Returned(Zero, "float")
    ELSE IF \E state \in DOMAIN h.tbl : ~Parses(state) THEN Raised
    ELSE IF Total(h) = 0 THEN Raised
    ELSE LET correlation_sum ==
                 SumOver([state \in DOMAIN h.tbl |->
                             EqualTriples(BitsOf(state)) * h.tbl[state]],
                         DOMAIN h.tbl)
         IN  Returned(Reduce(Rat(correlation_sum, Total(h))), QuotientType(h))

calculate_temporal_correlation(h) ==
    IF DOMAIN h.tbl = {} THEN Returned(Zero, "float")
    ELSE IF Total(h) = 0 THEN Returned(Zero, "float")
    ELSE IF \E state \in DOMAIN h.tbl : ~Parses(state) THEN Raised
    ELSE LET correlation_sum ==
                 SumOver([state \in DOMAIN h.tbl |->
                             EqualTriples(BitsOf(state)) * h.tbl[state]],
                         DOMAIN h.tbl)
         IN  Returned(Reduce(Rat(correlation_sum, Total(h))), QuotientType(h))

calculate_falsification_metric(h) ==
    IF DOMAIN h.tbl = {} THEN Returned(Zero, "float")
    ELSE IF Total(h) = 0 THEN Returned(Zero, "float")
    ELSE IF \E state \in DOMAIN h.tbl : ~Parses(state) \/ Len(state) = 0
         THEN Raised
    ELSE LET weight_sum ==
                 RSumOver([state \in DOMAIN h.tbl |->
                              Weight(BitsOf(state), h.tbl[state])],
                          DOMAIN h.tbl)
         IN  Returned(Reduce(Rat(weight_sum.n, weight_sum.d * Total(h))), "float")

calculate_beyond_quantum_metric(h) ==
    IF DOMAIN h.tbl = {} THEN Returned(Zero, "float")
    ELSE IF Total(h) = 0 THEN Returned(Zero, "float")
    ELSE IF \E state \in DOMAIN h.tbl : ~Parses(state) THEN Raised
    ELSE LET pattern_sum ==
                 SumOver([state \in DOMAIN h.tbl |->
                             AlternatingQuads(BitsOf(state)) * h.tbl[state]],
                         DOMAIN h.tbl)
         IN  Returned(Reduce(Rat(pattern_sum, Total(h))), QuotientType(h))

\* line 104: isinstance(x, (int, float))
IsNumber(m) == m.typ = "float"

-----------------------------------------------------------------------------
(* run_enhanced_validation (lines 51-142) *)

TestTypes == <<"falsification", "beyond_quantum", "temporal_correlation">>

\* line 61: np.linspace(0.1, 2.0, 8)[i] = 0.1 + i * (2.0 - 0.1) / 7
param_range(i) == Reduce(Rat(7 + 19 * i, 70))

\* lines 55-59
EmptyResults ==
    [falsification |-> << >>, beyond_quantum |-> << >>,
     temporal_correlation |-> << >>]

\* What self.bq.run gives the loop at line 83: an exception, None, or a
\* result whose counts are a histogram.
EmptyHistogram == [tbl |-> << >>, vtype |-> "int"]

LoopHistograms ==
    {EmptyHistogram,
     [tbl |-> (BitString(170) :> 1) @@ (BitString(15) :> 1), vtype |-> "int"],
     [tbl |-> (SpaceKey :> 1), vtype |-> "int"],
     [tbl |-> (EmptyKey :> 1) @@ (BitString(0) :> 1), vtype |-> "int"],
     [tbl |-> (BitString(0) :> 1), vtype |-> "Fraction"]}

Responses ==
    {[kind |-> "raise", counts |-> EmptyHistogram],
     [kind |-> "none", counts |-> EmptyHistogram]}
        \cup {[kind |-> "result", counts |-> h] : h \in LoopHistograms}

\* lines 83-95: the attempt leaves the outer try block before any metric is
\* computed
FailsBeforeMetrics(r) ==
    \/ r.kind = "raise"
    \/ r.kind = "none"
    \/ r.kind = "result" /\ DOMAIN r.counts.tbl = {}

\* lines 99-105: a metric raises, or the isinstance validation raises
FailsInMetrics(r) ==
    LET correlation == calculate_temporal_correlation(r.counts)
        falsification == calculate_falsification_metric(r.counts)
        beyond_quantum == calculate_beyond_quantum_metric(r.counts)
    IN  \/ correlation.exc \/ falsification.exc \/ beyond_quantum.exc
        \/ ~(IsNumber(correlation) /\ IsNumber(falsification)
                /\ IsNumber(beyond_quantum))

\* lines 108-110, and lines 132-134 with 0.0 for the three values
Store(res, param, correlation, falsification, beyond_quantum) ==
    [temporal_correlation |->
        Append(res.temporal_correlation, <<param, correlation>>),
     falsification |-> Append(res.falsification, <<param, falsification>>),
     beyond_quantum |-> Append(res.beyond_quantum, <<param, beyond_quantum>>)]

\* one retry too many: retry_count <= max_retries
WhileCond_OffByOne == ~success /\ retry_count <= max_retries

\* line 76
WhileCond == ~success /\ retry_count < max_retries

\* a check that lets short series through: len(v) <= len(param_range)
ResultsComplete_AtMost ==
    \A i \in 1..Len(TestTypes) : Len(results[TestTypes[i]]) <= SweepLen

\* line 139
ResultsComplete ==
    \A i \in 1..Len(TestTypes) : Len(results[TestTypes[i]]) = SweepLen

\* the null results are added on every failure, not only on the last one
OuterExcept_SentinelEveryFailure ==
    /\ retry_count' = retry_count + 1
    /\ pc' = IF retry_count + 1 < max_retries THEN "backoff" ELSE "while"
    /\ results' = Store(results, param_range(idx), Zero, Zero, Zero)
    /\ UNCHANGED <<idx, success, backoff_waited, delay_waited>>

\* lines 123-134: except block of the outer try
OuterExcept ==
    /\ retry_count' = retry_count + 1
    /\ IF retry_count + 1 < max_retries
       THEN /\ pc' = "backoff"
            /\ results' = results
       ELSE /\ pc' = "while"
            /\ results' = Store(results, param_range(idx), Zero, Zero, Zero)
    /\ UNCHANGED <<idx, success, backoff_waited, delay_waited>>

\* lines 119-121: except block of the inner try
InnerExcept ==
    /\ retry_count' = retry_count + 1
    /\ pc' = "while"
    /\ UNCHANGED <<idx, success, results, backoff_waited, delay_waited>>

LoopInit ==
    /\ pc = "for"
    /\ idx = 0
    /\ retry_count = 0
    /\ success = FALSE
    /\ results = EmptyResults
    /\ attempts = 0
    /\ backoff_waited = 0
    /\ delay_waited = 0

\* lines 69-74: the for loop takes the next parameter
ForNext ==
    /\ pc = "for"
    /\ idx < SweepLen
    /\ retry_count' = 0
    /\ success' = FALSE
    /\ attempts' = 0
    /\ backoff_waited' = 0
    /\ pc' = "while"
    /\ UNCHANGED <<idx, results, delay_waited>>

\* line 69: param_range is used up
ForEnd ==
    /\ pc = "for"
    /\ idx = SweepLen
    /\ pc' = "validate"
    /\ UNCHANGED <<idx, retry_count, success, results, attempts,
                   backoff_waited, delay_waited>>

\* line 76: the condition holds, lines 79-83 submit a job
WhileEnter ==
    /\ pc = "while"
    /\ WhileCond
    /\ pc' = "attempt"
    /\ UNCHANGED <<idx, retry_count, success, results, attempts,
                   backoff_waited, delay_waited>>

\* line 76: the condition fails, the point is left
WhileExit ==
    /\ pc = "while"
    /\ ~WhileCond
    /\ pc' = "delay"
    /\ UNCHANGED <<idx, retry_count, success, results, attempts,
                   backoff_waited, delay_waited>>

\* lines 79-95 and 123-134
AttemptFailsBeforeMetrics(r) ==
    /\ pc = "attempt"
    /\ FailsBeforeMetrics(r)
    /\ attempts' = attempts + 1
    /\ OuterExcept

\* lines 79-105 and 119-121
AttemptFailsInMetrics(r) ==
    /\ pc = "attempt"
    /\ ~FailsBeforeMetrics(r)
    /\ FailsInMetrics(r)
    /\ attempts' = attempts + 1
    /\ InnerExcept

\* lines 79-117
AttemptSucceeds(r) ==
    /\ pc = "attempt"
    /\ ~FailsBeforeMetrics(r)
    /\ ~FailsInMetrics(r)
    /\ attempts' = attempts + 1
    /\ results' = Store(results, param_range(idx),
                        calculate_temporal_correlation(r.counts).val,
                        calculate_falsification_metric(r.counts).val,
                        calculate_beyond_quantum_metric(r.counts).val)
    /\ success' = TRUE
    /\ pc' = "while"
    /\ UNCHANGED <<idx, retry_count, backoff_waited, delay_waited>>

\* line 128: time.sleep(retry_delay)
Backoff ==
    /\ pc = "backoff"
    /\ backoff_waited' = backoff_waited + retry_delay
    /\ pc' = "while"
    /\ UNCHANGED <<idx, retry_count, success, results, attempts, delay_waited>>

\* the delay is skipped for a point that was given up
Delay_OnlyAfterSuccess ==
    /\ pc = "delay"
    /\ delay_waited' = IF success THEN delay_waited + point_delay
                       ELSE delay_waited
    /\ idx' = idx + 1
    /\ pc' = "for"
    /\ UNCHANGED <<retry_count, success, results, attempts, backoff_waited>>

\* line 136: time.sleep(2), then the for loop advances
Delay ==
    /\ pc = "delay"
    /\ delay_waited' = delay_waited + point_delay
    /\ idx' = idx + 1
    /\ pc' = "for"
    /\ UNCHANGED <<retry_count, success, results, attempts, backoff_waited>>

\* lines 139-142: return results
ReturnResults ==
    /\ pc = "validate"
    /\ ResultsComplete
    /\ pc' = "returned"
    /\ UNCHANGED <<idx, retry_count, success, results, attempts,
                   backoff_waited, delay_waited>>

\* lines 139-140: raise ValueError("Incomplete results collected")
RaiseIncomplete ==
    /\ pc = "validate"
    /\ ~ResultsComplete
    /\ pc' = "raised"
    /\ UNCHANGED <<idx, retry_count, success, results, attempts,
                   backoff_waited, delay_waited>>

LoopIdle ==
    /\ pc = "idle"
    /\ idx = 0
    /\ retry_count = 0
    /\ success = FALSE
    /\ results = EmptyResults
    /\ attempts = 0
    /\ backoff_waited = 0
    /\ delay_waited = 0

-----------------------------------------------------------------------------
(* The metric extractors called on their own *)

MetricsIdle ==
    /\ counts = EmptyHistogram
    /\ metric = [temporal_correlation |-> NotCalled,
                 falsification |-> NotCalled,
                 beyond_quantum |-> NotCalled]

MetricsInit ==
    /\ counts \in Histograms
    /\ metric = [temporal_correlation |-> NotCalled,
                 falsification |-> NotCalled,
                 beyond_quantum |-> NotCalled]

CallTemporalCorrelation ==
    /\ metric.temporal_correlation = NotCalled
    /\ metric' = [metric EXCEPT !.temporal_correlation =
                                    calculate_temporal_correlation(counts)]
    /\ UNCHANGED counts

CallFalsificationMetric ==
    /\ metric.falsification = NotCalled
    /\ metric' = [metric EXCEPT !.falsification =
                                    calculate_falsification_metric(counts)]
    /\ UNCHANGED counts

CallBeyondQuantumMetric ==
    /\ metric.beyond_quantum = NotCalled
    /\ metric' = [metric EXCEPT !.beyond_quantum =
                                    calculate_beyond_quantum_metric(counts)]
    /\ UNCHANGED counts

-----------------------------------------------------------------------------
(* analyze_enhanced_results (lines 193-256) *)

TestTypeSet == {TestTypes[i] : i \in 1..Len(TestTypes)}

\* the keys of a mapping, in the order of TestTypes
KeysOf(m) == SelectSeq(TestTypes, LAMBDA t : t \in DOMAIN m)

\* series of at most MaxSeriesLen entries, one per sweep point from the first
SampleValues == {Zero, Rat(1, 2)}

SeriesOfLen(n) ==
    {[i \in 1..n |-> <<param_range(i - 1), ys[i]>>] :
        ys \in [1..n -> SampleValues]}

SampleSeries == UNION {SeriesOfLen(n) : n \in 0..MaxSeriesLen}

ResultMappings ==
    UNION {[D -> SampleSeries] : D \in SUBSET TestTypeSet}

\* line 235: np.mean(y_vals)
Mean(data) ==
    Reduce(Rat(RSumOver([i \in 1..Len(data) |-> data[i][2]], 1..Len(data)).n,
               RSumOver([i \in 1..Len(data) |-> data[i][2]], 1..Len(data)).d
                   * Len(data)))

\* lines 234-242: the fields that do not come out of scipy or numpy.fft;
\* sem is nan unless the series has more than one value
AnalysisRecord(data) ==
    [mean |-> Mean(data), sem_defined |-> Len(data) > 1]

\* line 200
NoValidResults(m) ==
    \/ DOMAIN m = {}
    \/ ~(\A t \in DOMAIN m : m[t] # << >>)

AnalyzeIdle ==
    /\ apc = "idle"
    /\ a_results = << >>
    /\ a_todo = << >>
    /\ analysis = << >>

AnalyzeInit ==
    /\ apc = "start"
    /\ a_results \in ResultMappings
    /\ a_todo = << >>
    /\ analysis = << >>

\* lines 200-201: raise ValueError("No valid results to analyze")
AnalyzeRaise ==
    /\ apc = "start"
    /\ NoValidResults(a_results)
    /\ apc' = "raised"
    /\ UNCHANGED <<a_results, a_todo, analysis>>

\* line 200 passes, line 203 starts the loop over results.keys()
AnalyzeStart ==
    /\ apc = "start"
    /\ ~NoValidResults(a_results)
    /\ apc' = "loop"
    /\ a_todo' = KeysOf(a_results)
    /\ UNCHANGED <<a_results, analysis>>

\* lines 203-242: one pass of the loop body
AnalyzeKey ==
    /\ apc = "loop"
    /\ a_todo # << >>
    /\ LET test_type == Head(a_todo)
           data == a_results[test_type]
       IN  analysis' = IF data = << >>
                       THEN analysis
                       ELSE (test_type :> AnalysisRecord(data)) @@ analysis
    /\ a_todo' = Tail(a_todo)
    /\ UNCHANGED <<apc, a_results>>

\* line 256
AnalyzeReturn ==
    /\ apc = "loop"
    /\ a_todo = << >>
    /\ apc' = "done"
    /\ UNCHANGED <<a_results, a_todo, analysis>>

-----------------------------------------------------------------------------
(* Specifications *)

Init == LoopInit /\ MetricsIdle /\ AnalyzeIdle

Next ==
    \/ ForNext /\ UNCHANGED <<metric_vars, analyze_vars>>
    \/ ForEnd /\ UNCHANGED <<metric_vars, analyze_vars>>
    \/ WhileEnter /\ UNCHANGED <<metric_vars, analyze_vars>>
    \/ WhileExit /\ UNCHANGED <<metric_vars, analyze_vars>>
    \/ \E r \in Responses :
          AttemptFailsBeforeMetrics(r) /\ UNCHANGED <<metric_vars, analyze_vars>>
    \/ \E r \in Responses :
          AttemptFailsInMetrics(r) /\ UNCHANGED <<metric_vars, analyze_vars>>
    \/ \E r \in Responses :
          AttemptSucceeds(r) /\ UNCHANGED <<metric_vars, analyze_vars>>
    \/ Backoff /\ UNCHANGED <<metric_vars, analyze_vars>>
    \/ Delay /\ UNCHANGED <<metric_vars, analyze_vars>>
    \/ ReturnResults /\ UNCHANGED <<metric_vars, analyze_vars>>
    \/ RaiseIncomplete /\ UNCHANGED <<metric_vars, analyze_vars>>

Spec == Init /\ [][Next]_vars

\* the interpreter runs the single thread of control: every step that can be
\* taken is taken, and every call of the service comes back
FairSpec == Spec /\ WF_vars(Next)

InitMetrics == LoopIdle /\ MetricsInit /\ AnalyzeIdle

NextMetrics ==
    \/ CallTemporalCorrelation /\ UNCHANGED <<loop_vars, analyze_vars>>
    \/ CallFalsificationMetric /\ UNCHANGED <<loop_vars, analyze_vars>>
    \/ CallBeyondQuantumMetric /\ UNCHANGED <<loop_vars, analyze_vars>>

SpecMetrics == InitMetrics /\ [][NextMetrics]_vars

InitAnalyze == LoopIdle /\ MetricsIdle /\ AnalyzeInit

NextAnalyze ==
    \/ AnalyzeRaise /\ UNCHANGED <<loop_vars, metric_vars>>
    \/ AnalyzeStart /\ UNCHANGED <<loop_vars, metric_vars>>
    \/ AnalyzeKey /\ UNCHANGED <<loop_vars, metric_vars>>
    \/ AnalyzeReturn /\ UNCHANGED <<loop_vars, metric_vars>>

SpecAnalyze == InitAnalyze /\ [][NextAnalyze]_vars

-----------------------------------------------------------------------------
(* Properties *)

LoopRunning == pc # "idle"

SeriesOf(t) == results[t]

Last(seq) == seq[Len(seq)]

\* the current point has used up its attempts without a success
Exhausted == pc = "delay" /\ ~success /\ retry_count = max_retries

\* C1 (as stated): every sweep point whose three attempts failed, whatever
\* the kinds of the failures, is recorded as (param, 0.0) in all three
\* series, and the sweep does not end in "Incomplete results collected".
C1_ExhaustedPointRecordsSentinel ==
    /\ Exhausted =>
          \A t \in TestTypeSet :
              /\ Len(SeriesOf(t)) > 0
              /\ Last(SeriesOf(t)) = <<param_range(idx), Zero>>
    /\ pc # "raised"

\* C2: every mapping that run_enhanced_validation returns has exactly 8
\* entries in each of the three series.
C2_ReturnedSeriesHaveSweepLength ==
    pc = "returned" => \A t \in TestTypeSet : Len(SeriesOf(t)) = SweepLen

\* a returned mapping holding both a measured entry and a sentinel entry
C2_Witness ==
    /\ pc = "returned"
    /\ \E i, j \in 1..SweepLen :
          /\ results.temporal_correlation[i][2] = Zero
          /\ results.temporal_correlation[j][2] # Zero

\* C7 (as stated): whenever an attempt starts, every earlier attempt on the
\* same point failed, was counted, and was followed by a backoff wait of 5.
C7_BackoffBeforeEveryRetry ==
    pc = "attempt" =>
        /\ attempts = retry_count
        /\ backoff_waited = retry_delay * retry_count

\* C8: the sweep ends after all 8 points, taken in order: an attempt is made
\* only on a point that has not succeeded and has had fewer than 3 attempts,
\* and the loop moves to the next point only from a point that had between
\* 1 and 3 attempts and is resolved.
C8_SweepTerminatesInOrder ==
    /\ [][/\ attempts' = attempts + 1 =>
                 ~success /\ attempts < max_retries
          /\ idx' # idx =>
                 /\ idx' = idx + 1
                 /\ attempts \in 1..max_retries
                 /\ success \/ retry_count = max_retries]_vars
    /\ <>(pc \in {"returned", "raised"} /\ idx = SweepLen)

\* the sweep has ended after its eighth point, the last one after 3 attempts
C8_Witness ==
    /\ pc \in {"returned", "raised"}
    /\ idx = SweepLen
    /\ attempts = max_retries

\* C9: the delay of 2 has been applied exactly once for every resolved
\* point, succeeded or exhausted, whenever the next point is being worked on.
C9_DelayOncePerResolvedPoint ==
    LoopRunning => delay_waited = point_delay * idx

\* the third point is being attempted after one measured and one exhausted
\* point
C9_Witness ==
    /\ pc = "attempt"
    /\ idx = 2
    /\ Len(results.temporal_correlation) = 2
    /\ \E i, j \in 1..2 :
          /\ results.temporal_correlation[i][2] = Zero
          /\ results.temporal_correlation[j][2] # Zero

\* C10: the three series have the same length, and their entries carry
\* parameters of points already begun, strictly increasing: no point has
\* more than one entry.
C10_SeriesAligned ==
    LoopRunning =>
        /\ \A s, t \in TestTypeSet : Len(SeriesOf(s)) = Len(SeriesOf(t))
        /\ \A t \in TestTypeSet :
              /\ \A i \in 1..Len(SeriesOf(t)) :
                    \E k \in 0..(SweepLen - 1) :
                        /\ k <= idx
                        /\ SeriesOf(t)[i][1] = param_range(k)
              /\ \A i, j \in 1..Len(SeriesOf(t)) :
                    i < j => /\ RLeq(SeriesOf(t)[i][1], SeriesOf(t)[j][1])
                             /\ SeriesOf(t)[i][1] # SeriesOf(t)[j][1]

\* a point has just been given its sentinel after two recorded points
C10_Witness ==
    /\ Exhausted
    /\ idx = 2
    /\ Len(results.falsification) = 3
    /\ Last(results.beyond_quantum) = <<param_range(2), Zero>>

-----------------------------------------------------------------------------
(* Properties of the metric extractors *)

Called(m) == m # NotCalled

\* every bit-string of the histogram has the measured length
MeasuredLength(h) == \A state \in DOMAIN h.tbl : state \in AllBitStrings

\* the call returned a value between 0 and bound
Within(m, bound) ==
    /\ ~m.exc
    /\ RLeq(Zero, m.val)
    /\ RLeq(m.val, Rat(bound, 1))

\* the histogram holds the one bit-string state, with a positive count
Single(h, state) == DOMAIN h.tbl = {state} /\ h.tbl[state] > 0

\* C3 (as stated): on a histogram of 8-bit strings each extractor returns a
\* value between 0 and 1.
C3_MetricsWithinUnitInterval ==
    MeasuredLength(counts) =>
        /\ Called(metric.temporal_correlation) =>
              Within(metric.temporal_correlation, 1)
        /\ Called(metric.falsification) => Within(metric.falsification, 1)
        /\ Called(metric.beyond_quantum) => Within(metric.beyond_quantum, 1)

\* C3 (amended): on a histogram of 8-bit strings the temporal correlation
\* lies between 0 and 6 (the number of windows of three), the falsification
\* metric between 0 and 1, the beyond-quantum metric between 0 and 5 (the
\* number of windows of four).
C3_MetricsWithinWindowCount ==
    MeasuredLength(counts) =>
        /\ Called(metric.temporal_correlation) =>
              Within(metric.temporal_correlation, NumQubits - 2)
        /\ Called(metric.falsification) => Within(metric.falsification, 1)
        /\ Called(metric.beyond_quantum) =>
              Within(metric.beyond_quantum, NumQubits - 3)

\* the temporal correlation of a histogram of 8-bit strings is 6
C3_Witness ==
    /\ MeasuredLength(counts)
    /\ Cardinality(DOMAIN counts.tbl) = 2
    /\ Total(counts) > 0
    /\ metric.temporal_correlation.val = Rat(NumQubits - 2, 1)
    /\ Called(metric.falsification)
    /\ Called(metric.beyond_quantum)

\* C4 (as stated): "00000000" alone gives temporal correlation 1.0,
\* falsification 0.5 and beyond-quantum 0.0; "10101010" alone gives
\* beyond-quantum 1.0 and temporal correlation 0.0.
C4_SingleStringValues ==
    /\ Single(counts, BitString(0)) =>
          /\ Called(metric.temporal_correlation) =>
                ~metric.temporal_correlation.exc
                    /\ metric.temporal_correlation.val = Rat(1, 1)
          /\ Called(metric.falsification) =>
                ~metric.falsification.exc
                    /\ metric.falsification.val = Rat(1, 2)
          /\ Called(metric.beyond_quantum) =>
                ~metric.beyond_quantum.exc
                    /\ metric.beyond_quantum.val = Zero
    /\ Single(counts, BitString(170)) =>
          /\ Called(metric.beyond_quantum) =>
                ~metric.beyond_quantum.exc
                    /\ metric.beyond_quantum.val = Rat(1, 1)
          /\ Called(metric.temporal_correlation) =>
                ~metric.temporal_correlation.exc
                    /\ metric.temporal_correlation.val = Zero

\* C4 (amended): "00000000" alone gives temporal correlation 6.0,
\* falsification 0.5 and beyond-quantum 0.0; "10101010" alone gives
\* beyond-quantum 5.0 and temporal correlation 0.0.
C4_SingleStringWindowCounts ==
    /\ Single(counts, BitString(0)) =>
          /\ Called(metric.temporal_correlation) =>
                ~metric.temporal_correlation.exc
                    /\ metric.temporal_correlation.val = Rat(6, 1)
          /\ Called(metric.falsification) =>
                ~metric.falsification.exc
                    /\ metric.falsification.val = Rat(1, 2)
          /\ Called(metric.beyond_quantum) =>
                ~metric.beyond_quantum.exc
                    /\ metric.beyond_quantum.val = Zero
    /\ Single(counts, BitString(170)) =>
          /\ Called(metric.beyond_quantum) =>
                ~metric.beyond_quantum.exc
                    /\ metric.beyond_quantum.val = Rat(5, 1)
          /\ Called(metric.temporal_correlation) =>
                ~metric.temporal_correlation.exc
                    /\ metric.temporal_correlation.val = Zero

\* the three extractors have run on "10101010" alone
C4_Witness ==
    /\ Single(counts, BitString(170))
    /\ counts.tbl[BitString(170)] = MaxCount
    /\ metric.beyond_quantum.val = Rat(5, 1)
    /\ Called(metric.temporal_correlation)
    /\ Called(metric.falsification)

\* C6: on a histogram that is empty or whose counts sum to 0 each extractor
\* returns 0.0 and does not raise.
C6_ZeroTotalGivesZero ==
    (DOMAIN counts.tbl = {} \/ Total(counts) = 0) =>
        /\ Called(metric.temporal_correlation) =>
              metric.temporal_correlation = Returned(Zero, "float")
        /\ Called(metric.falsification) =>
              metric.falsification = Returned(Zero, "float")
        /\ Called(metric.beyond_quantum) =>
              metric.beyond_quantum = Returned(Zero, "float")

\* the three extractors have run on a histogram of two bit-strings, both
\* with count 0
C6_Witness ==
    /\ Cardinality(DOMAIN counts.tbl) = 2
    /\ Total(counts) = 0
    /\ Called(metric.temporal_correlation)
    /\ Called(metric.falsification)
    /\ Called(metric.beyond_quantum)

-----------------------------------------------------------------------------
(* Properties of analyze_enhanced_results *)

HasData(m) == \E t \in DOMAIN m : m[t] # << >>

\* C5 (as stated): the error "No valid results to analyze" is raised exactly
\* when no metric has a non-empty series; otherwise the metrics with an
\* empty series are skipped and every metric with data gets a record.
C5_RaisesOnlyWithoutData ==
    /\ apc = "raised" => ~HasData(a_results)
    /\ apc \in {"loop", "done"} => HasData(a_results)
    /\ apc = "done" =>
          DOMAIN analysis = {t \in DOMAIN a_results : a_results[t] # << >>}

=============================================================================
